---- MODULE Spec2Model ----
(***************************************************************************)
(* Verification model of the street-level imagery services of agnived_ai:  *)
(* the candidate search of GoogleMapDB/GoogleVR3 (find_nearest_vr_images   *)
(* and its web form handler), the panorama search entry point of           *)
(* PipeLine3.0 (panos_api), and the panorama download cache of             *)
(* generate_normal_views_for_pano.                                         *)
(*                                                                         *)
(* Units.  Coordinates are integers in microdegrees (1e-6 degree).         *)
(* Distances are integers in millimetres.  Radii, separations and counts   *)
(* are given as the callers give them (metres, items).                     *)
(***************************************************************************)
EXTENDS Integers, Sequences, FiniteSets, TLC

\* ------------------------------------------------------------------------
\* Bounds of the model
\* ------------------------------------------------------------------------
\* Longest response of the image catalogue that is enumerated.
MaxRecords == 3
\* Largest count a request asks for; the smallest is -1.
MaxCount == 3
\* Threads of the server that run view generation at the same time.
NCallers == 2
\* Calls of view generation, over all threads.
MaxCalls == 3
\* Chunks the body of a panorama download arrives in.
NChunks == 2

\* ------------------------------------------------------------------------
\* Geo helpers
\* ------------------------------------------------------------------------
\* Earth radius in metres (haversine_distance_m).
R == 6371000
\* Metres per degree of latitude as bbox_from_point takes it.
MetersPerDegLat == 111320

Max(a, b) == IF a >= b THEN a ELSE b
Min(a, b) == IF a <= b THEN a ELSE b

RECURSIVE SqrtBetween(_, _, _)
SqrtBetween(n, lo, hi) ==
    IF lo >= hi THEN lo
    ELSE LET mid == (lo + hi + 1) \div 2
         IN  IF mid * mid <= n THEN SqrtBetween(n, mid, hi)
                               ELSE SqrtBetween(n, lo, mid - 1)

\* floor(sqrt(n)) for 0 <= n < 2^31
ISqrt(n) == SqrtBetween(n, 0, 46340)

\* R * pi / 180: the metres one degree of a great circle spans (111194),
\* with pi taken as 355/113.
MetersPerDegArc == ((R \div 1000) * 355 * 100) \div (113 * 18)

\* cos(latitude) in parts per million, for a latitude in microdegrees
\* between -90 and 90 degrees: (32400 - 4 d^2) / (32400 + d^2) for d
\* degrees, which is 1 at the equator, 1/2 at 60 degrees and 0 at the
\* poles, and within 0.2 % of the cosine between.
CosPpm(lat) ==
    LET c == lat \div 10000
        n == 324000000 - 4 * c * c
        q == (324000000 + c * c) \div 1000
    IN  (n \div q) * 1000 + ((n % q) * 1000) \div q

\* The distance with the difference of latitude counted northwards only.
haversine_distance_m_Northwards(lat1, lon1, lat2, lon2) ==
    LET dphi    == IF lat2 >= lat1 THEN lat2 - lat1 ELSE 0
        dlambda == lon2 - lon1
    IN  (ISqrt(100 * (dphi * dphi + dlambda * dlambda)) * MetersPerDegArc)
            \div 10000

\* haversine_distance_m: great-circle distance in millimetres between two
\* points given in microdegrees.  For the separations of the model (under
\* 0.002 degree) the haversine angle c = 2*atan2(sqrt(a), sqrt(1-a))
\* equals sqrt(dphi^2 + cos(phi1) * cos(phi2) * dlambda^2) to better than
\* 1e-9 relative, so R*c is computed as that root, to 0.1 microdegree.
haversine_distance_m(lat1, lon1, lat2, lon2) ==
    LET dphi    == lat2 - lat1
        dlambda == lon2 - lon1
        coscos  == ((CosPpm(lat1) \div 1000) * (CosPpm(lat2) \div 1000))
                       \div 1000
    IN  (ISqrt(100 * (dphi * dphi + (coscos * dlambda * dlambda) \div 1000))
            * MetersPerDegArc) \div 10000

\* bbox_from_point: the box in microdegrees.  The real deltas are rounded
\* down to a whole microdegree, which leaves the box's membership of every
\* point of the microdegree grid unchanged.
bbox_from_point(lat, lon, radius_m) ==
    LET delta_lat == (radius_m * 1000000) \div MetersPerDegLat
        meters_per_deg_lon ==
            (MetersPerDegLat \div 40) * (Max(CosPpm(lat), 1) \div 25000)
        delta_lon == (radius_m * 1000000) \div meters_per_deg_lon
    IN  [min_lat |-> lat - delta_lat, max_lat |-> lat + delta_lat,
         min_lon |-> lon - delta_lon, max_lon |-> lon + delta_lon]

\* ------------------------------------------------------------------------
\* The image catalogue (the external record source)
\* ------------------------------------------------------------------------
\* A coordinate value of a record's JSON: a number, or something else
\* (a string, null).
Num(v) == [num |-> TRUE, v |-> v]
NotANumber == [num |-> FALSE, v |-> 0]

\* A catalogue record: id, geometry and is_pano.  geometry.kind is "none"
\* (no geometry, or null), "nocoords" (geometry without coordinates) or
\* "coords"; coordinates are in GeoJSON order, longitude first.
Image(id, kind, coordinates, is_pano) ==
    [id |-> id,
     geometry |-> [kind |-> kind, coordinates |-> coordinates],
     is_pano |-> is_pano]

\* The records the enumerated responses are made of.  1 and 2 lie at the
\* same distance from the origin, 3 in the corner of the 100 m box, 4 is
\* 23 m from 1; 5..8 are malformed in the four ways a record can be.
Pool ==
    { Image(1, "coords", <<Num(0), Num(300)>>, TRUE),
      Image(2, "coords", <<Num(300), Num(0)>>, FALSE),
      Image(3, "coords", <<Num(898), Num(898)>>, TRUE),
      Image(4, "coords", <<Num(0), Num(90), Num(12)>>, TRUE),
      Image(5, "none", <<>>, FALSE),
      Image(6, "nocoords", <<>>, TRUE),
      Image(7, "coords", <<Num(100)>>, FALSE),
      Image(8, "coords", <<NotANumber, NotANumber>>, TRUE) }

\* Every sequence of at most MaxRecords distinct records of the pool.
Catalogues ==
    UNION { { s \in [1..k -> Pool] :
                \A i, j \in 1..k : i # j => s[i] # s[j] } : k \in 0..MaxRecords }

\* The query centres, (lat, lon).
Centers == { <<0, 0>>, <<0, 200>> }

\* Requested counts.
Counts == (0 - 1)..MaxCount

\* The catalogue's answer to a bbox query: the records of the box, in the
\* catalogue's order.  A record with no usable position is not filtered
\* by it.
WellFormed(img) ==
    /\ img.geometry.kind = "coords"
    /\ Len(img.geometry.coordinates) >= 2
    /\ img.geometry.coordinates[1].num
    /\ img.geometry.coordinates[2].num

InBBox(bbox, img) ==
    LET c == img.geometry.coordinates
    IN  /\ bbox.min_lon <= c[1].v /\ c[1].v <= bbox.max_lon
        /\ bbox.min_lat <= c[2].v /\ c[2].v <= bbox.max_lat

MapillaryImages(bbox, catalogue) ==
    LET Keep(img) == WellFormed(img) => InBBox(bbox, img)
    IN  SelectSeq(catalogue, Keep)

\* ------------------------------------------------------------------------
\* Mapillary logic: find_nearest_vr_images
\* ------------------------------------------------------------------------
\* An unstable insertion: before the first element whose key is not smaller.
InsertByDistance_Unstable(s, r) ==
    LET k == Cardinality({ i \in 1..Len(s) : s[i].distance_m < r.distance_m })
    IN  SubSeq(s, 1, k) \o <<r>> \o SubSeq(s, k + 1, Len(s))

\* list.sort(key=distance_m): a stable sort, by insertion after the last
\* element whose key is not larger.
InsertByDistance(s, r) ==
    LET k == Cardinality({ i \in 1..Len(s) : s[i].distance_m <= r.distance_m })
    IN  SubSeq(s, 1, k) \o <<r>> \o SubSeq(s, k + 1, Len(s))

\* The sort left out: the list in the order of the response.
SortByDistance_Unsorted(s) == s

RECURSIVE SortByDistance(_)
SortByDistance(s) ==
    IF s = <<>> THEN <<>>
    ELSE InsertByDistance(SortByDistance(SubSeq(s, 1, Len(s) - 1)), s[Len(s)])

\* Slice without its limit: the whole list.
Slice_NoLimit(s, n) == s

\* results[:n], Python's slice: a negative n counts from the end.
Slice(s, n) ==
    IF n >= 0 THEN SubSeq(s, 1, Min(n, Len(s)))
    ELSE SubSeq(s, 1, Max(Len(s) + n, 0))

\* The loop's guard: "if not coords or len(coords) < 2: continue".
HasCoords(img) ==
    /\ img.geometry.kind = "coords"
    /\ Len(img.geometry.coordinates) >= 2

\* The dict appended for one record.
Candidate(lat, lon, img) ==
    LET img_lon == img.geometry.coordinates[1].v
        img_lat == img.geometry.coordinates[2].v
    IN  [id |-> img.id, lat |-> img_lat, lon |-> img_lon,
         distance_m |-> haversine_distance_m(lat, lon, img_lat, img_lon),
         is_pano |-> img.is_pano]

Ok(items) == [status |-> "ok", items |-> items]
Raised(what) == [status |-> what, items |-> <<>>]

\* find_nearest_vr_images(lat, lon, n, radius_m), with `catalogue` what the
\* image catalogue holds.  haversine_distance_m raises TypeError on a
\* coordinate that is not a number.
find_nearest_vr_images(lat, lon, n, radius_m, catalogue) ==
    LET bbox   == bbox_from_point(lat, lon, radius_m)
        images == MapillaryImages(bbox, catalogue)
        used   == SelectSeq(images, HasCoords)
        Numeric(img) == img.geometry.coordinates[1].num
                        /\ img.geometry.coordinates[2].num
        results == [i \in 1..Len(used) |-> Candidate(lat, lon, used[i])]
    IN  IF images = <<>> THEN Ok(<<>>)
        ELSE IF \E i \in 1..Len(used) : ~Numeric(used[i])
             THEN Raised("TypeError")
             ELSE Ok(Slice(SortByDistance(results), n))

\* ------------------------------------------------------------------------
\* Mapillary logic of GoogleVR1 and GoogleVR2: find_nearest_vr_image
\* ------------------------------------------------------------------------
\* best = None
NoBest == [status |-> "ok", found |-> FALSE, id |-> 0, lat |-> 0, lon |-> 0,
           distance_m |-> 0]

\* The comparison with equality let through: the last of equals wins.
Closer_OrEqual(dist, best) == ~best.found \/ dist <= best.distance_m

\* "if dist < best_dist", with best_dist = float("inf") before the first
\* record.
Closer(dist, best) == ~best.found \/ dist < best.distance_m

\* The loop over the records that have coordinates.
RECURSIVE NearestLoop(_, _, _, _)
NearestLoop(used, lat, lon, best) ==
    IF used = <<>> THEN best
    ELSE LET img_lon == Head(used).geometry.coordinates[1].v
             img_lat == Head(used).geometry.coordinates[2].v
             dist    == haversine_distance_m(lat, lon, img_lat, img_lon)
         IN  NearestLoop(Tail(used), lat, lon,
                 IF Closer(dist, best)
                 THEN [status |-> "ok", found |-> TRUE, id |-> Head(used).id,
                       lat |-> img_lat, lon |-> img_lon, distance_m |-> dist]
                 ELSE best)

\* find_nearest_vr_image(lat, lon, radius_m): the nearest record or None.
find_nearest_vr_image(lat, lon, radius_m, catalogue) ==
    LET bbox   == bbox_from_point(lat, lon, radius_m)
        images == MapillaryImages(bbox, catalogue)
        used   == SelectSeq(images, HasCoords)
        Numeric(img) == img.geometry.coordinates[1].num
                        /\ img.geometry.coordinates[2].num
    IN  IF images = <<>> THEN NoBest
        ELSE IF \E i \in 1..Len(used) : ~Numeric(used[i])
             THEN [NoBest EXCEPT !.status = "TypeError"]
             ELSE NearestLoop(used, lat, lon, NoBest)

\* The coercion with the comparison off by one: a count of 0 is kept.
CoerceCount_NegativeOnly(n) == IF n < 0 THEN 1 ELSE n

\* The form handler's count: "if n <= 0: n = 1".
CoerceCount(n) == IF n <= 0 THEN 1 ELSE n

\* The radius the form handler searches, in metres.
IndexRadius == 100

\* index (POST) with a latitude, a longitude and a count that parse: the
\* outcome of its search.  A TypeError is none of the exceptions the
\* handler catches, and leaves it.
index(lat, lon, count, catalogue) ==
    find_nearest_vr_images(lat, lon, CoerceCount(count), IndexRadius, catalogue)

\* ------------------------------------------------------------------------
\* Panorama search of the pipeline API: core.find_panos_and_views
\* ------------------------------------------------------------------------
\* Sort by distance, ties by id.
InsertByDistanceThenId(s, r) ==
    LET Before(x) == \/ x.distance_m < r.distance_m
                     \/ x.distance_m = r.distance_m /\ x.id <= r.id
        k == Cardinality({ i \in 1..Len(s) : Before(s[i]) })
    IN  SubSeq(s, 1, k) \o <<r>> \o SubSeq(s, k + 1, Len(s))

RECURSIVE SortByDistanceThenId(_)
SortByDistanceThenId(s) ==
    IF s = <<>> THEN <<>>
    ELSE InsertByDistanceThenId(
             SortByDistanceThenId(SubSeq(s, 1, Len(s) - 1)), s[Len(s)])

\* The separation test left out: every candidate is accepted.
FarFromAll_NoTest(accepted, r, min_distance_m) == TRUE

\* A candidate is accepted when it lies more than min_distance_m from every
\* candidate accepted before it.
FarFromAll(accepted, r, min_distance_m) ==
    \A i \in 1..Len(accepted) :
        haversine_distance_m(accepted[i].lat, accepted[i].lon, r.lat, r.lon)
            > min_distance_m * 1000

RECURSIVE SelectSeparated(_, _, _, _)
SelectSeparated(sorted, accepted, max_results, min_distance_m) ==
    IF sorted = <<>> \/ Len(accepted) >= max_results THEN accepted
    ELSE SelectSeparated(
             Tail(sorted),
             IF FarFromAll(accepted, Head(sorted), min_distance_m)
             THEN Append(accepted, Head(sorted)) ELSE accepted,
             max_results, min_distance_m)

find_panos_and_views(lat, lon, n, radius_m, min_distance_m, catalogue) ==
    LET bbox   == bbox_from_point(lat, lon, radius_m)
        images == MapillaryImages(bbox, catalogue)
        valid  == SelectSeq(images, WellFormed)
        all    == [i \in 1..Len(valid) |-> Candidate(lat, lon, valid[i])]
        Near(r) == r.distance_m <= radius_m * 1000
        sorted == SortByDistanceThenId(SelectSeq(all, Near))
    IN  Ok(SelectSeparated(sorted, <<>>, IF n <= 0 THEN 1 ELSE n, min_distance_m))

\* panos_api: the request's fields are handed over as they are.
panos_api(request, catalogue) ==
    find_panos_and_views(request.lat, request.lon, request.count,
                         request.area_of_interest, request.min_distance,
                         catalogue)

\* ------------------------------------------------------------------------
\* Batch handlers of the pipeline API: panos_detect_objects_api and
\* panos_detect_and_classify_api
\* ------------------------------------------------------------------------
\* What becomes of one candidate's panorama: fetched and usable, not
\* fetched, fetched but gone from the disk when the handler looks, or
\* fetched but not an image.
Fates == { "ok", "fetch_failed", "vanished", "undecodable" }

\* Per image id, the fate of its panorama during one request.
FateMaps ==
    { <<"ok", "fetch_failed", "ok", "undecodable">>,
      <<"fetch_failed", "ok", "vanished", "ok">>,
      <<"undecodable", "ok", "ok", "fetch_failed">>,
      <<"vanished", "undecodable", "fetch_failed", "ok">>,
      <<"ok", "ok", "ok", "ok">> }

FateOf(fate, id) == IF id \in DOMAIN fate THEN fate[id] ELSE "ok"

\* img.get('pano_downloaded') and img.get('pano_path') of a result image.
pano_downloaded(f) == f # "fetch_failed"
pano_path(id) == <<"panos", id>>

\* os.path.exists(pano_path)
path_exists(f) == f # "vanished" /\ f # "fetch_failed"

\* run_object_detection(pano_path, labels): the detections, or an error
\* report for a file that does not decode.
run_object_detection(f) ==
    IF f = "ok" THEN "objects" ELSE "decode_failed"

DetectedEntry(id, detection) ==
    [pano_id |-> id, pano_path |-> pano_path(id), object_detection |-> detection]

\* The loop body with its two failure branches left out.
DetectStep_SkipFailed(acc, img, f) ==
    IF pano_downloaded(f) /\ path_exists(f)
    THEN Append(acc, DetectedEntry(img.id, run_object_detection(f)))
    ELSE acc

\* One turn of the loop over pano_result['images']: one append in each of
\* its three branches.
DetectStep(acc, img, f) ==
    IF pano_downloaded(f)
    THEN IF path_exists(f)
         THEN Append(acc, DetectedEntry(img.id, run_object_detection(f)))
         ELSE Append(acc, DetectedEntry(img.id, "Pano image not found."))
    ELSE Append(acc, DetectedEntry(img.id, "Pano not downloaded."))

RECURSIVE DetectLoop(_, _, _)
DetectLoop(images, fate, acc) ==
    IF images = <<>> THEN acc
    ELSE DetectLoop(Tail(images), fate,
                    DetectStep(acc, Head(images), FateOf(fate, Head(images).id)))

\* classify_results: one entry for each image whose detection ran.
RECURSIVE ClassifyLoop(_, _, _)
ClassifyLoop(images, fate, acc) ==
    IF images = <<>> THEN acc
    ELSE LET f == FateOf(fate, Head(images).id)
         IN  ClassifyLoop(Tail(images), fate,
                 IF pano_downloaded(f) /\ path_exists(f)
                 THEN Append(acc, Head(images).id) ELSE acc)

BatchHandlers == { "panos_detect_objects", "panos_detect_and_classify" }

\* ------------------------------------------------------------------------
\* Reprojection: perspective_from_equirect
\* ------------------------------------------------------------------------
\* Angles are in millidegrees and source coordinates in thousandths of a
\* pixel.  The field of view is the 90 degrees every call of the program
\* passes, so that tan(fov / 2) = 1 and f = out_w / 2.

\* Largest output width and height of the model.
MaxOut == 4
\* out_w and out_h: the program passes 800 and 600.
OutSizes == 2..MaxOut
\* h_in of the panoramas; w_in is twice h_in.
PanoHeights == { 4, 8 }
Yaws == { 0, 90, 180, 270 }
Pitches == { 0 - 90, 0, 90 }

\* The cosine without its sign.
CosDeg_Abs(d) == IF d % 180 = 0 THEN 1 ELSE 0

\* np.cos and np.sin of a multiple of 90 degrees.
CosDeg(d) == IF d % 360 = 0 THEN 1 ELSE IF d % 360 = 180 THEN 0 - 1 ELSE 0
SinDeg(d) == IF d % 360 = 90 THEN 1 ELSE IF d % 360 = 270 THEN 0 - 1 ELSE 0

\* np.linspace(-n / 2, n / 2, n)[k], times 2 * (n - 1): the n samples run
\* from -n / 2 to n / 2, both ends included, in steps of n / (n - 1).
Linspace(n, k) == n * (2 * k - (n - 1))

\* The ray (x, y, z) of output pixel (i, j) before normalisation, times
\* 2 * (out_w - 1) * (out_h - 1).  Normalisation scales the three
\* components alike and changes neither arctan2(x, z) nor the latitude.
Ray(i, j, out_w, out_h) ==
    [x |-> Linspace(out_w, i) * (out_h - 1),
     y |-> 0 - Linspace(out_h, j) * (out_w - 1),
     z |-> out_w * (out_w - 1) * (out_h - 1)]

\* pitch around X
PitchRotate(r, pitch_d) ==
    [x |-> r.x,
     y |-> r.y * CosDeg(pitch_d) - r.z * SinDeg(pitch_d),
     z |-> r.y * SinDeg(pitch_d) + r.z * CosDeg(pitch_d)]

\* yaw around Y
YawRotate(r, yaw_d) ==
    [x |-> r.x * CosDeg(yaw_d) + r.z * SinDeg(yaw_d),
     y |-> r.y,
     z |-> (0 - r.x) * SinDeg(yaw_d) + r.z * CosDeg(yaw_d)]

\* atan(a / b) for 0 <= a <= b, b > 0: exact at 0 and at 45 degrees,
\* within a quarter of a degree between.
AtanOctant(a, b) ==
    LET t == (1000 * a) \div b
    IN  (45000 * t + ((15642 * t) \div 1000) * (1000 - t)) \div 1000

\* atan2(a, b) for a >= 0, b >= 0.
AtanQuadrant(a, b) ==
    IF a = 0 THEN 0
    ELSE IF a <= b THEN AtanOctant(a, b)
    ELSE 90000 - AtanOctant(b, a)

\* np.arctan2(a, b), in (-180000, 180000].  sin(pi) and cos(pi / 2) are
\* small positive numbers in floating point, which is what makes the
\* arctan2 of the ray pointing backwards +pi and not -pi.
arctan2(a, b) ==
    IF b >= 0
    THEN IF a >= 0 THEN AtanQuadrant(a, b) ELSE 0 - AtanQuadrant(0 - a, b)
    ELSE IF a >= 0 THEN 180000 - AtanQuadrant(a, 0 - b)
                   ELSE AtanQuadrant(0 - a, 0 - b) - 180000

\* np.arcsin of the y component of the normalised ray.
arcsin(r) == arctan2(10 * r.y, ISqrt(100 * (r.x * r.x + r.z * r.z)))

\* spherical -> pano coordinates
x_pano(lon, w_in) == ((lon + 180000) * w_in) \div 360
y_pano(lat, h_in) == ((90000 - lat) * h_in) \div 180

\* INTER_LINEAR: the source indices that enter a sample with a weight
\* above zero.
Taps(coord) ==
    IF coord % 1000 = 0 THEN { coord \div 1000 }
    ELSE { coord \div 1000, coord \div 1000 + 1 }

\* borderMode=cv2.BORDER_WRAP, which cv2.remap applies to rows and columns
\* alike.
BORDER_WRAP(k, len) == k % len

\* One output pixel: its ray, where it looks and the source rows and columns
\* cv2.remap takes it from.
Sample(i, j, w_in, h_in, yaw_d, pitch_d, out_w, out_h) ==
    LET r   == YawRotate(PitchRotate(Ray(i, j, out_w, out_h), pitch_d), yaw_d)
        lon == arctan2(r.x, r.z)
        lat == arcsin(r)
        xp  == x_pano(lon, w_in)
        yp  == y_pano(lat, h_in)
    IN  [ray |-> Ray(i, j, out_w, out_h),
         lon |-> lon, lat |-> lat, x_pano |-> xp, y_pano |-> yp,
         cols |-> { BORDER_WRAP(k, w_in) : k \in Taps(xp) },
         rows |-> { BORDER_WRAP(k, h_in) : k \in Taps(yp) }]

perspective_from_equirect(w_in, h_in, yaw_d, pitch_d, out_w, out_h) ==
    [p \in (0..(out_w - 1)) \X (0..(out_h - 1)) |->
        Sample(p[1], p[2], w_in, h_in, yaw_d, pitch_d, out_w, out_h)]

\* ------------------------------------------------------------------------
\* Probes of the geo helpers
\* ------------------------------------------------------------------------
\* Search radii in metres.
Radii == { 0 - 100, 0, 50, 100 }
\* Centres of the probes: those of the searches, and one at 60 degrees
\* north.
GeoCenters == Centers \cup { <<60000000, 0>> }
\* Offsets of the probed point from the centre, in microdegrees.
Offsets == { 0 - 899, 0 - 450, 0, 450, 898, 899, 1300 }

\* ------------------------------------------------------------------------
\* Dashboard application: users, sessions and uploads
\* ------------------------------------------------------------------------
\* Registrations, uploads and browsers of the model.
MaxUsers == 2
MaxUploads == 2
NClients == 2

Clients == 1..NClients
Usernames == { "a", "b" }
Roles == { "user", "admin" }

\* Where an upload was taken, (lat, lon) in microdegrees; <<>> is an upload
\* with no latitude or longitude (NULL columns).
Spots == { <<>>, <<0, 300>>, <<0, 600>>, <<0, 1000>> }

\* Search centres of search_uploads_by_area; <<>> is a request with no
\* latitude.
SearchCenters == { <<>>, <<0, 0>> }
\* radius of the search, in metres (the request gives it in km: 0.1).
SearchRadius == 100

\* A session cookie with nothing in it.
NoSession == [has |-> FALSE, user_id |-> 0, role |-> "none"]

\* login_required: 'user_id' in session
login_required(sess) == sess.has

\* The decorator without its test of the role.
admin_required_LoginOnly(sess) == sess.has

\* admin_required: 'user_id' in session and session.get('role') == 'admin'
admin_required(sess) == sess.has /\ sess.role = "admin"

\* The query of get_image with its test of the owner left out.
ImageRows_AnyOwner(table, sess, image_id) ==
    { u \in table : u.id = image_id }

\* get_image's SELECT: an admin sees every row, another user the rows
\* whose user_id is the session's.
ImageRows(table, sess, image_id) ==
    IF sess.role = "admin"
    THEN { u \in table : u.id = image_id }
    ELSE { u \in table : u.id = image_id /\ u.user_id = sess.user_id }

\* haversine_distance of search_uploads_by_area, in millimetres: the same
\* formula as haversine_distance_m with c = 2 * asin(sqrt(a)), which for
\* the separations of the model is the same root.
haversine_distance(lat1, lon1, lat2, lon2) ==
    haversine_distance_m(lat1, lon1, lat2, lon2)

\* round(distance, 2) of a distance in km: hundredths of a km.
Round2(distance) == (distance + 5000) \div 10000

\* The SELECT without its test of the owner.
OwnLocated_EveryUser(table, user_id) ==
    { u \in table : u.spot # <<>> }

\* search_uploads_by_area's SELECT: the session's own uploads that have a
\* latitude and a longitude.
OwnLocated(table, user_id) ==
    { u \in table : u.user_id = user_id /\ u.spot # <<>> }

\* The rows of a table in the order SQLite hands them out, by rowid.
RECURSIVE ByRowId(_)
ByRowId(rows) ==
    IF rows = {} THEN <<>>
    ELSE LET first == CHOOSE u \in rows : \A v \in rows : u.id <= v.id
         IN  <<first>> \o ByRowId(rows \ { first })

\* filtered_uploads.sort(key=lambda x: x['distance']): a stable sort by
\* the rounded distance.
InsertByReported(sorted, r) ==
    LET k == Cardinality({ i \in 1..Len(sorted) : sorted[i].distance <= r.distance })
    IN  SubSeq(sorted, 1, k) \o <<r>> \o SubSeq(sorted, k + 1, Len(sorted))

RECURSIVE SortByReported(_)
SortByReported(found) ==
    IF found = <<>> THEN <<>>
    ELSE InsertByReported(SortByReported(SubSeq(found, 1, Len(found) - 1)),
                          found[Len(found)])

\* The loop of search_uploads_by_area over the rows, and its sort.
search_uploads_by_area(table, user_id, center, radius_m) ==
    LET rows == ByRowId(OwnLocated(table, user_id))
        Dist(u) == haversine_distance(center[1], center[2], u.spot[1], u.spot[2])
        Within(u) == Dist(u) <= radius_m * 1000
        kept == SelectSeq(rows, Within)
    IN  SortByReported([i \in 1..Len(kept) |->
            [id |-> kept[i].id, distance |-> Round2(Dist(kept[i]))]])

\* ------------------------------------------------------------------------
\* State
\* ------------------------------------------------------------------------
VARIABLES
    entry,      \* the handler that served the last request: "none", "index", "panos"
    request,    \* the last request
    catalogue,  \* what the image catalogue held when it was served
    outcome,    \* what the search of that request produced
    nearest,    \* what find_nearest_vr_image produced for it
    fates,      \* per image id, what became of its panorama in that request
    detected_objects,  \* the batch handler's detected_objects
    classify_results   \* the batch handler's classify_results (pano ids)

VARIABLES
    pc,          \* per thread: where it is in generate_normal_views_for_pano
    arg,         \* per thread: the image id of its call
    offset,      \* per thread: chunks its open file has been written
    panos,       \* per image id: the file PANOS_DIR/<id>.jpg
    views,       \* per image id: the view files VIEWS_DIR/<id>_<name>.jpg
    returned,    \* per thread: how its last call ended
    sawCached,   \* per thread: its call found the file at its exists() test
    fetched,     \* per thread: its call issued a network request
    wrote,       \* per thread: its call created, truncated or wrote the file
    decoded,     \* per thread: what its cv2.imread was given
    netFetches,  \* per image id: network requests issued for it
    failedFetches, \* per image id: those that ended in an exception
    calls        \* calls started

VARIABLES
    projPc,     \* "idle", "projected" (one call) or "generated" (four views)
    cfg,        \* the sizes and the pitch of the last reprojection
    shots       \* per yaw of that reprojection, its output pixels

VARIABLES
    geoPc,      \* "idle" or "probed"
    probe       \* a centre, a radius, a point, and what the helpers said

VARIABLES
    users,      \* rows of the users table: id, username, role
    userSeq,    \* the last id AUTOINCREMENT gave a user
    uploads,    \* rows of the uploads table: id, user_id, spot
    uploadSeq,  \* the last id AUTOINCREMENT gave an upload
    session,    \* per browser, its session cookie
    deleted,    \* ids of the users delete_user has deleted
    dash        \* the last request to the Dashboard and its response

searchVars == <<entry, request, catalogue, outcome, nearest, fates, detected_objects,
                classify_results>>
cacheVars == <<pc, arg, offset, panos, views, returned, sawCached, fetched,
               wrote, decoded, netFetches, failedFetches, calls>>
projVars == <<projPc, cfg, shots>>
geoVars == <<geoPc, probe>>
dashVars == <<users, userSeq, uploads, uploadSeq, session, deleted, dash>>
vars == <<searchVars, cacheVars, projVars, geoVars, dashVars>>

Request(lat, lon, count, area_of_interest, min_distance) ==
    [lat |-> lat, lon |-> lon, count |-> count,
     area_of_interest |-> area_of_interest, min_distance |-> min_distance]

\* Radius and separation of the API requests, in metres:
\* <<area_of_interest, min_distance>>.
Searches == { <<100, 30>>, <<40, 20>> }

SearchIdle ==
    /\ entry = "none"
    /\ request = Request(0, 0, 0, 0, 0)
    /\ catalogue = <<>>
    /\ outcome = Ok(<<>>)
    /\ nearest = NoBest
    /\ fates = <<>>
    /\ detected_objects = <<>>
    /\ classify_results = <<>>

\* POST / of the form application.
IndexPost ==
    /\ entry = "none"
    /\ \E c \in Centers, count \in Counts, cat \in Catalogues :
        /\ entry' = "index"
        /\ request' = Request(c[1], c[2], count, IndexRadius, 0)
        /\ catalogue' = cat
        /\ outcome' = index(c[1], c[2], count, cat)
    /\ UNCHANGED <<nearest, fates, detected_objects, classify_results>>
    /\ UNCHANGED <<cacheVars, projVars, geoVars, dashVars>>

\* POST /panos of the pipeline API.
PanosApi ==
    /\ entry = "none"
    /\ \E c \in Centers, count \in Counts, cat \in Catalogues, s \in Searches :
        /\ entry' = "panos"
        /\ request' = Request(c[1], c[2], count, s[1], s[2])
        /\ catalogue' = cat
        /\ outcome' = panos_api(request', cat)
    /\ UNCHANGED <<nearest, fates, detected_objects, classify_results>>
    /\ UNCHANGED <<cacheVars, projVars, geoVars, dashVars>>

\* POST /panos_detect_objects and POST /panos_detect_and_classify of the
\* pipeline API: the search, then the loop over its images.
PanosDetect ==
    /\ entry = "none"
    /\ \E h \in BatchHandlers, c \in Centers, count \in Counts,
          cat \in Catalogues, s \in Searches, fate \in FateMaps :
        /\ entry' = h
        /\ request' = Request(c[1], c[2], count, s[1], s[2])
        /\ catalogue' = cat
        /\ outcome' = panos_api(request', cat)
        /\ fates' = fate
        /\ nearest' = nearest
        /\ detected_objects' = DetectLoop(outcome'.items, fate, <<>>)
        /\ classify_results' =
               IF h = "panos_detect_and_classify"
               THEN ClassifyLoop(outcome'.items, fate, <<>>) ELSE <<>>
    /\ UNCHANGED <<cacheVars, projVars, geoVars, dashVars>>

\* One source response given to both searches: find_nearest_vr_image as
\* the form handlers of GoogleVR1 and GoogleVR2 call it, and
\* find_nearest_vr_images with n = 1.
NearestPost ==
    /\ entry = "none"
    /\ \E c \in Centers, cat \in Catalogues :
        /\ entry' = "nearest"
        /\ request' = Request(c[1], c[2], 1, IndexRadius, 0)
        /\ catalogue' = cat
        /\ outcome' = find_nearest_vr_images(c[1], c[2], 1, IndexRadius, cat)
        /\ nearest' = find_nearest_vr_image(c[1], c[2], IndexRadius, cat)
    /\ UNCHANGED <<fates, detected_objects, classify_results>>
    /\ UNCHANGED <<cacheVars, projVars, geoVars, dashVars>>

\* The response is sent; the server waits for the next request.
Respond ==
    /\ entry # "none"
    /\ entry' = "none"
    /\ request' = Request(0, 0, 0, 0, 0)
    /\ catalogue' = <<>>
    /\ outcome' = Ok(<<>>)
    /\ nearest' = NoBest
    /\ fates' = <<>>
    /\ detected_objects' = <<>>
    /\ classify_results' = <<>>
    /\ UNCHANGED <<cacheVars, projVars, geoVars, dashVars>>

\* ------------------------------------------------------------------------
\* The panorama cache: generate_normal_views_for_pano
\* ------------------------------------------------------------------------
Callers == 1..NCallers
ImageIds == { 1, 2 }
ViewNames == { "front", "right", "back", "left" }

\* The images the form application can come to: those of ImageIds, which
\* it slices, and two it does not.
AllImageIds == ImageIds \cup { 3, 4 }

\* What get_image_metadata gives for an image: whether a thumb_2048_url is
\* known, is_pano, width and height (0: not given).  Image 1 is a 2:1 image
\* not flagged as a panorama, 2 a flagged one of unknown size, 3 an
\* ordinary photo, 4 a flagged panorama without a URL.
Meta(id) ==
    CASE id = 1 -> [image_url |-> TRUE, is_pano |-> FALSE, width |-> 2048, height |-> 1024]
      [] id = 2 -> [image_url |-> TRUE, is_pano |-> TRUE, width |-> 0, height |-> 0]
      [] id = 3 -> [image_url |-> TRUE, is_pano |-> FALSE, width |-> 1024, height |-> 768]
      [] OTHER  -> [image_url |-> FALSE, is_pano |-> TRUE, width |-> 4096, height |-> 2048]

\* The test with the URL forgotten.
ShouldSlice_NoUrlTest(meta) ==
    \/ meta.is_pano
    \/ /\ meta.width # 0 /\ meta.height # 0
       /\ 10 * Max(meta.width - 2 * meta.height, 2 * meta.height - meta.width)
            < 3 * meta.height

\* index: "if image_url and (is_pano or (width and height and
\* abs(width / height - 2.0) < 0.3))".
ShouldSlice(meta) ==
    /\ meta.image_url
    /\ \/ meta.is_pano
       \/ /\ meta.width # 0 /\ meta.height # 0
          /\ 10 * Max(meta.width - 2 * meta.height, 2 * meta.height - meta.width)
               < 3 * meta.height

\* The body of a panorama image as the image host serves it: chunks
\* 1..NChunks.
Body == [k \in 1..NChunks |-> k]

\* A body that is no raster image (an HTML page, say).
NotAnImage == [k \in 1..NChunks |-> NChunks + k]

\* What the host serves under the URL of an image: for image 2, bytes that
\* are no image.
HostBody(id) == IF id = 2 THEN NotAnImage ELSE Body

\* The views swapped: yaw 90 named left, yaw 270 named right.
names_Swapped(yaw) ==
    CASE yaw = 0 -> "front" [] yaw = 90 -> "left" [] yaw = 180 -> "back"
      [] OTHER -> "right"

\* names = {0: "front", 90: "right", 180: "back", 270: "left"}
names(yaw) ==
    CASE yaw = 0 -> "front" [] yaw = 90 -> "right" [] yaw = 180 -> "back"
      [] OTHER -> "left"

yaw_list == <<0, 90, 180, 270>>
fov_deg == 90
pitch_deg == 0

\* A view file: VIEWS_DIR/<image_id>_<name>.jpg and the camera it was
\* made with.
View(image_id, yaw) ==
    [file |-> <<image_id, names(yaw)>>, name |-> names(yaw), yaw |-> yaw,
     pitch |-> pitch_deg, fov |-> fov_deg]

\* The files the loop over yaw_list writes.
ViewFiles(image_id) == { View(image_id, yaw_list[i]) : i \in 1..Len(yaw_list) }

\* A file: whether it exists and the chunks it holds, 0 for a run of bytes
\* no one wrote (a hole).
NoFile == [exists |-> FALSE, data |-> <<>>]
EmptyFile == [exists |-> TRUE, data |-> <<>>]

\* f.write(chunk) on a handle that has written k - 1 chunks: the chunk goes
\* to the handle's own position, past the end of a file another handle
\* truncated.
WriteAt(data, k, chunk) ==
    [i \in 1..Max(Len(data), k) |->
        IF i = k THEN chunk ELSE IF i <= Len(data) THEN data[i] ELSE 0]

\* The test left out: every call downloads.
AfterCheck_AlwaysDownload(exists) == "get"

\* "if not pano_path.exists():" chooses between the download and the read.
AfterCheck(exists) == IF exists THEN "read" ELSE "get"

CacheIdle ==
    /\ pc = [c \in Callers |-> "idle"]
    /\ arg = [c \in Callers |-> 1]
    /\ offset = [c \in Callers |-> 0]
    /\ panos = [id \in AllImageIds |-> NoFile]
    /\ views = [id \in AllImageIds |-> {}]
    /\ returned = [c \in Callers |-> "none"]
    /\ sawCached = [c \in Callers |-> FALSE]
    /\ fetched = [c \in Callers |-> FALSE]
    /\ wrote = [c \in Callers |-> FALSE]
    /\ decoded = [c \in Callers |-> [done |-> FALSE, data |-> <<>>, writers |-> {}]]
    /\ netFetches = [id \in AllImageIds |-> 0]
    /\ failedFetches = [id \in AllImageIds |-> 0]
    /\ calls = 0

\* index comes to an image it does not slice: view generation is not
\* called.
Skip(c) ==
    /\ pc[c] = "idle"
    /\ calls < MaxCalls
    /\ \E id \in AllImageIds :
          /\ ~ShouldSlice(Meta(id))
          /\ arg' = [arg EXCEPT ![c] = id]
    /\ calls' = calls + 1
    /\ offset' = [offset EXCEPT ![c] = 0]
    /\ returned' = [returned EXCEPT ![c] = "skipped"]
    /\ sawCached' = [sawCached EXCEPT ![c] = FALSE]
    /\ fetched' = [fetched EXCEPT ![c] = FALSE]
    /\ wrote' = [wrote EXCEPT ![c] = FALSE]
    /\ decoded' = [decoded EXCEPT ![c] = [done |-> FALSE, data |-> <<>>, writers |-> {}]]
    /\ UNCHANGED <<pc, panos, views, netFetches, failedFetches, searchVars,
                   projVars, geoVars, dashVars>>

\* index comes to an image it slices: a thread enters
\* generate_normal_views_for_pano(image_id, image_url).
Call(c) ==
    /\ pc[c] = "idle"
    /\ calls < MaxCalls
    /\ \E id \in AllImageIds :
          /\ ShouldSlice(Meta(id))
          /\ arg' = [arg EXCEPT ![c] = id]
    /\ pc' = [pc EXCEPT ![c] = "check"]
    /\ calls' = calls + 1
    /\ offset' = [offset EXCEPT ![c] = 0]
    /\ returned' = [returned EXCEPT ![c] = "none"]
    /\ sawCached' = [sawCached EXCEPT ![c] = FALSE]
    /\ fetched' = [fetched EXCEPT ![c] = FALSE]
    /\ wrote' = [wrote EXCEPT ![c] = FALSE]
    /\ decoded' = [decoded EXCEPT ![c] = [done |-> FALSE, data |-> <<>>, writers |-> {}]]
    /\ UNCHANGED <<panos, views, netFetches, failedFetches, searchVars,
                   projVars, geoVars, dashVars>>

\* pano_path.exists()
CheckExists(c) ==
    /\ pc[c] = "check"
    /\ sawCached' = [sawCached EXCEPT ![c] = panos[arg[c]].exists]
    /\ pc' = [pc EXCEPT ![c] = AfterCheck(panos[arg[c]].exists)]
    /\ UNCHANGED <<arg, offset, panos, views, returned, fetched, wrote, decoded,
                   netFetches, failedFetches, calls, searchVars,
                   projVars, geoVars, dashVars>>

\* requests.get(image_url, stream=True, timeout=15); r.raise_for_status():
\* the host answers, or the request raises (network error, timeout, HTTP
\* error status) and the call ends with the exception.
Get(c) ==
    /\ pc[c] = "get"
    /\ fetched' = [fetched EXCEPT ![c] = TRUE]
    /\ netFetches' = [netFetches EXCEPT ![arg[c]] = @ + 1]
    /\ \/ /\ pc' = [pc EXCEPT ![c] = "open"]
          /\ UNCHANGED <<returned, failedFetches>>
       \/ /\ pc' = [pc EXCEPT ![c] = "idle"]
          /\ returned' = [returned EXCEPT ![c] = "raised"]
          /\ failedFetches' = [failedFetches EXCEPT ![arg[c]] = @ + 1]
    /\ UNCHANGED <<arg, offset, panos, views, sawCached, wrote, decoded, calls,
                   searchVars,
                   projVars, geoVars, dashVars>>

\* open(pano_path, "wb"): the file is created, or truncated.
Open(c) ==
    /\ pc[c] = "open"
    /\ panos' = [panos EXCEPT ![arg[c]] = EmptyFile]
    /\ wrote' = [wrote EXCEPT ![c] = TRUE]
    /\ offset' = [offset EXCEPT ![c] = 0]
    /\ pc' = [pc EXCEPT ![c] = "write"]
    /\ UNCHANGED <<arg, views, returned, sawCached, fetched, decoded, netFetches,
                   failedFetches, calls, searchVars,
                   projVars, geoVars, dashVars>>

\* One round of "for chunk in r.iter_content(...): f.write(chunk)"; after
\* the last chunk the file is closed.
WriteChunk(c) ==
    /\ pc[c] = "write"
    /\ offset[c] < NChunks
    /\ panos' = [panos EXCEPT ![arg[c]] =
                    [exists |-> TRUE,
                     data |-> WriteAt(@.data, offset[c] + 1,
                                      HostBody(arg[c])[offset[c] + 1])]]
    /\ offset' = [offset EXCEPT ![c] = @ + 1]
    /\ pc' = [pc EXCEPT ![c] = IF offset[c] + 1 = NChunks THEN "read" ELSE "write"]
    /\ UNCHANGED <<arg, views, returned, sawCached, fetched, wrote, decoded,
                   netFetches, failedFetches, calls, searchVars,
                   projVars, geoVars, dashVars>>

\* iter_content raises while the body streams (connection lost, read
\* timeout): the with block closes the file as it is and the call ends
\* with the exception.
StreamFails(c) ==
    /\ pc[c] = "write"
    /\ offset[c] < NChunks
    /\ pc' = [pc EXCEPT ![c] = "idle"]
    /\ returned' = [returned EXCEPT ![c] = "raised"]
    /\ failedFetches' = [failedFetches EXCEPT ![arg[c]] = @ + 1]
    /\ UNCHANGED <<arg, offset, panos, views, sawCached, fetched, wrote, decoded,
                   netFetches, calls, searchVars,
                   projVars, geoVars, dashVars>>

\* The callers that hold the file of `id` open for writing.
Writers(id) == { w \in Callers : pc[w] = "write" /\ arg[w] = id }

\* pano = cv2.imread(str(pano_path)); "if pano is None: return {}".  The
\* whole body decodes.  A file that does not begin with the body's first
\* chunk has no image header and gives None.  A truncated body gives None
\* or an image, as the decoder sees fit.
Imread(c) ==
    /\ pc[c] = "read"
    /\ decoded' = [decoded EXCEPT ![c] =
                      [done |-> TRUE, data |-> panos[arg[c]].data,
                       writers |-> Writers(arg[c]) \ {c}]]
    /\ LET data == panos[arg[c]].data
           none == /\ pc' = [pc EXCEPT ![c] = "idle"]
                   /\ returned' = [returned EXCEPT ![c] = "empty"]
           image == /\ pc' = [pc EXCEPT ![c] = "views"]
                    /\ UNCHANGED returned
       IN  IF data = Body THEN image
           ELSE IF data = <<>> \/ data[1] # Body[1] THEN none
           ELSE none \/ image
    /\ UNCHANGED <<arg, offset, panos, views, sawCached, fetched, wrote,
                   netFetches, failedFetches, calls, searchVars,
                   projVars, geoVars, dashVars>>

\* The loop over yaw_list: the four views are written and their URLs
\* returned.
WriteViews(c) ==
    /\ pc[c] = "views"
    /\ views' = [views EXCEPT ![arg[c]] = ViewFiles(arg[c])]
    /\ returned' = [returned EXCEPT ![c] = "views"]
    /\ pc' = [pc EXCEPT ![c] = "idle"]
    /\ UNCHANGED <<arg, offset, panos, sawCached, fetched, wrote, decoded,
                   netFetches, failedFetches, calls, searchVars,
                   projVars, geoVars, dashVars>>

\* ------------------------------------------------------------------------
\* Reprojection calls
\* ------------------------------------------------------------------------
NoCfg == [w_in |-> 0, h_in |-> 0, pitch |-> 0, out_w |-> 0, out_h |-> 0]
NoShots == [y \in {} |-> 0]

ProjIdle ==
    /\ projPc = "idle"
    /\ cfg = NoCfg
    /\ shots = NoShots

\* One call of perspective_from_equirect.
Project ==
    /\ projPc = "idle"
    /\ \E h_in \in PanoHeights, yaw_d \in Yaws, pitch_d \in Pitches,
          out_w \in OutSizes, out_h \in OutSizes :
        /\ projPc' = "projected"
        /\ cfg' = [w_in |-> 2 * h_in, h_in |-> h_in, pitch |-> pitch_d,
                   out_w |-> out_w, out_h |-> out_h]
        /\ shots' = [y \in { yaw_d } |->
                        perspective_from_equirect(2 * h_in, h_in, y, pitch_d,
                                                  out_w, out_h)]
    /\ UNCHANGED <<searchVars, cacheVars, geoVars, dashVars>>

\* The loop of generate_normal_views_for_pano over yaw_list.
GenerateViews ==
    /\ projPc = "idle"
    /\ \E h_in \in PanoHeights, out_w \in OutSizes, out_h \in OutSizes :
        /\ projPc' = "generated"
        /\ cfg' = [w_in |-> 2 * h_in, h_in |-> h_in, pitch |-> pitch_deg,
                   out_w |-> out_w, out_h |-> out_h]
        /\ shots' = [y \in { yaw_list[k] : k \in DOMAIN yaw_list } |->
                        perspective_from_equirect(2 * h_in, h_in, y, pitch_deg,
                                                  out_w, out_h)]
    /\ UNCHANGED <<searchVars, cacheVars, geoVars, dashVars>>

\* The rasters are handed over.
ProjDone ==
    /\ projPc # "idle"
    /\ projPc' = "idle"
    /\ cfg' = NoCfg
    /\ shots' = NoShots
    /\ UNCHANGED <<searchVars, cacheVars, geoVars, dashVars>>

\* ------------------------------------------------------------------------
\* Calls of the geo helpers
\* ------------------------------------------------------------------------
NoProbe ==
    [lat |-> 0, lon |-> 0, radius_m |-> 0, point_lat |-> 0, point_lon |-> 0,
     bbox |-> [min_lat |-> 0, max_lat |-> 0, min_lon |-> 0, max_lon |-> 0],
     box_returned |-> FALSE, distance_m |-> 0, reverse_m |-> 0]

GeoIdle ==
    /\ geoPc = "idle"
    /\ probe = NoProbe

\* bbox_from_point around a centre, which returns a box whatever it is
\* given, and haversine_distance_m from the centre to a point and back.
Probe ==
    /\ geoPc = "idle"
    /\ \E c \in GeoCenters, radius_m \in Radii, dlat \in Offsets, dlon \in Offsets :
        /\ geoPc' = "probed"
        /\ probe' = [lat |-> c[1], lon |-> c[2], radius_m |-> radius_m,
                     point_lat |-> c[1] + dlat, point_lon |-> c[2] + dlon,
                     bbox |-> bbox_from_point(c[1], c[2], radius_m),
                     box_returned |-> TRUE,
                     distance_m |-> haversine_distance_m(
                         c[1], c[2], c[1] + dlat, c[2] + dlon),
                     reverse_m |-> haversine_distance_m(
                         c[1] + dlat, c[2] + dlon, c[1], c[2])]
    /\ UNCHANGED <<searchVars, cacheVars, projVars, dashVars>>

ProbeDone ==
    /\ geoPc = "probed"
    /\ geoPc' = "idle"
    /\ probe' = NoProbe
    /\ UNCHANGED <<searchVars, cacheVars, projVars, dashVars>>

\* ------------------------------------------------------------------------
\* Requests to the Dashboard application
\* ------------------------------------------------------------------------
\* A request by a browser with its session as it was, and the response:
\* the image served (an upload id, or 0) and the uploads a search found.
Exchange(op, c, target, status, image, found) ==
    [op |-> op, has |-> session[c].has,
     user_id |-> session[c].user_id, role |-> session[c].role,
     arg |-> target, status |-> status, image |-> image, found |-> found]

DashIdle ==
    /\ users = {}
    /\ userSeq = 0
    /\ uploads = {}
    /\ uploadSeq = 0
    /\ session = [c \in Clients |-> NoSession]
    /\ deleted = {}
    /\ dash = [op |-> "none", has |-> FALSE, user_id |-> 0,
               role |-> "none", arg |-> 0, status |-> "none", image |-> 0,
               found |-> <<>>]

\* POST /register with a username, a password and a role.
Register(c) ==
    /\ userSeq < MaxUsers
    /\ \E username \in Usernames, role \in Roles :
        IF \E r \in users : r.username = username
        THEN /\ dash' = Exchange("register", c, 0, "username_exists", 0, <<>>)
             /\ UNCHANGED <<users, userSeq>>
        ELSE /\ users' = users \cup
                    { [id |-> userSeq + 1, username |-> username, role |-> role] }
             /\ userSeq' = userSeq + 1
             /\ dash' = Exchange("register", c, userSeq + 1, "redirect_login", 0, <<>>)
    /\ UNCHANGED <<uploads, uploadSeq, session, deleted>>
    /\ UNCHANGED <<searchVars, cacheVars, projVars, geoVars>>

\* POST /login with a username and its password, or a wrong password.
Login(c) ==
    /\ \E username \in Usernames, password_ok \in BOOLEAN :
        LET found == { r \in users : r.username = username }
        IN  IF found # {} /\ password_ok
            THEN LET user == CHOOSE r \in found : TRUE
                 IN  /\ session' = [session EXCEPT ![c] =
                            [has |-> TRUE, user_id |-> user.id, role |-> user.role]]
                     /\ dash' = Exchange("login", c, user.id, "redirect_index", 0, <<>>)
            ELSE /\ dash' = Exchange("login", c, 0, "redirect_login", 0, <<>>)
                 /\ UNCHANGED session
    /\ UNCHANGED <<users, userSeq, uploads, uploadSeq, deleted>>
    /\ UNCHANGED <<searchVars, cacheVars, projVars, geoVars>>

\* GET /logout
Logout(c) ==
    /\ session[c].has
    /\ session' = [session EXCEPT ![c] = NoSession]
    /\ dash' = Exchange("logout", c, 0, "redirect_login", 0, <<>>)
    /\ UNCHANGED <<users, userSeq, uploads, uploadSeq, deleted>>
    /\ UNCHANGED <<searchVars, cacheVars, projVars, geoVars>>

\* POST /upload with an image and, or not, a latitude and a longitude.
Upload(c) ==
    /\ uploadSeq < MaxUploads
    /\ \E spot \in Spots :
        IF ~login_required(session[c])
        THEN /\ dash' = Exchange("upload", c, 0, "redirect_login", 0, <<>>)
             /\ UNCHANGED <<uploads, uploadSeq>>
        ELSE /\ uploads' = uploads \cup
                    { [id |-> uploadSeq + 1, user_id |-> session[c].user_id,
                       spot |-> spot] }
             /\ uploadSeq' = uploadSeq + 1
             /\ dash' = Exchange("upload", c, uploadSeq + 1, "ok", 0, <<>>)
    /\ UNCHANGED <<users, userSeq, session, deleted>>
    /\ UNCHANGED <<searchVars, cacheVars, projVars, geoVars>>

\* GET /image/<image_id>
GetImage(c) ==
    /\ \E image_id \in 1..MaxUploads :
        LET result == ImageRows(uploads, session[c], image_id)
        IN  dash' =
                IF ~login_required(session[c])
                THEN Exchange("get_image", c, image_id, "redirect_login", 0, <<>>)
                ELSE IF result # {}
                THEN Exchange("get_image", c, image_id, "image", image_id, <<>>)
                ELSE Exchange("get_image", c, image_id, "404", 0, <<>>)
    /\ UNCHANGED <<users, userSeq, uploads, uploadSeq, session, deleted>>
    /\ UNCHANGED <<searchVars, cacheVars, projVars, geoVars>>

\* The two redirects of admin_required.
Refusal(sess) == IF sess.has THEN "redirect_index" ELSE "redirect_login"

\* POST /admin/delete_upload/<upload_id>
DeleteUpload(c) ==
    /\ \E upload_id \in 1..MaxUploads :
        IF ~admin_required(session[c])
        THEN /\ dash' = Exchange("delete_upload", c, upload_id,
                                 Refusal(session[c]), 0, <<>>)
             /\ UNCHANGED uploads
        ELSE /\ uploads' = { u \in uploads : u.id # upload_id }
             /\ dash' = Exchange("delete_upload", c, upload_id,
                                 "redirect_admin", 0, <<>>)
    /\ UNCHANGED <<users, userSeq, uploadSeq, session, deleted>>
    /\ UNCHANGED <<searchVars, cacheVars, projVars, geoVars>>

\* POST /admin/delete_user/<user_id>
DeleteUser(c) ==
    /\ \E user_id \in 1..MaxUsers :
        IF ~admin_required(session[c])
        THEN /\ dash' = Exchange("delete_user", c, user_id,
                                 Refusal(session[c]), 0, <<>>)
             /\ UNCHANGED <<users, deleted>>
        ELSE IF user_id = session[c].user_id
        THEN /\ dash' = Exchange("delete_user", c, user_id, "own_account", 0, <<>>)
             /\ UNCHANGED <<users, deleted>>
        ELSE /\ users' = { r \in users : r.id # user_id }
             /\ deleted' = deleted \cup { r.id : r \in users \ users' }
             /\ dash' = Exchange("delete_user", c, user_id, "redirect_admin", 0, <<>>)
    /\ UNCHANGED <<userSeq, uploads, uploadSeq, session>>
    /\ UNCHANGED <<searchVars, cacheVars, projVars, geoVars>>

\* POST /api/uploads/search
SearchUploads(c) ==
    /\ \E center \in SearchCenters :
        dash' =
            IF ~login_required(session[c])
            THEN Exchange("search", c, 0, "redirect_login", 0, <<>>)
            ELSE IF center = <<>>
            THEN Exchange("search", c, 0, "400", 0, <<>>)
            ELSE Exchange("search", c, SearchRadius, "ok", 0,
                     search_uploads_by_area(uploads, session[c].user_id,
                                            center, SearchRadius))
    /\ UNCHANGED <<users, userSeq, uploads, uploadSeq, session, deleted>>
    /\ UNCHANGED <<searchVars, cacheVars, projVars, geoVars>>

\* ------------------------------------------------------------------------
\* Specifications
\* ------------------------------------------------------------------------
Init == SearchIdle /\ CacheIdle /\ ProjIdle /\ GeoIdle /\ DashIdle

SearchNext == IndexPost \/ PanosApi \/ PanosDetect \/ NearestPost \/ Respond

\* The search handlers, one request at a time.
SearchSpec == Init /\ [][SearchNext]_vars

CacheNext ==
    \E c \in Callers :
        \/ Skip(c)
        \/ Call(c)
        \/ CheckExists(c)
        \/ Get(c)
        \/ Open(c)
        \/ WriteChunk(c)
        \/ StreamFails(c)
        \/ Imread(c)
        \/ WriteViews(c)

\* View generation, called from the threads of the server.
CacheSpec == Init /\ [][CacheNext]_vars

ProjNext == Project \/ GenerateViews \/ ProjDone

\* Reprojections, one at a time.
ProjSpec == Init /\ [][ProjNext]_vars

GeoNext == Probe \/ ProbeDone

\* Calls of the geo helpers, one at a time.
GeoSpec == Init /\ [][GeoNext]_vars

DashNext ==
    \E c \in Clients :
        \/ Register(c)
        \/ Login(c)
        \/ Logout(c)
        \/ Upload(c)
        \/ GetImage(c)
        \/ DeleteUpload(c)
        \/ DeleteUser(c)
        \/ SearchUploads(c)

\* The Dashboard application, one request at a time.
DashSpec == Init /\ [][DashNext]_vars

\* ------------------------------------------------------------------------
\* Properties of candidate search
\* ------------------------------------------------------------------------
Served == entry # "none"
Items == outcome.items

\* The count the search works with: a count of 0 or less stands for 1.
MaxResults == IF request.count <= 0 THEN 1 ELSE request.count

\* The records of the catalogue the search can rank.
Usable == SelectSeq(catalogue, WellFormed)

Separation(a, b) == haversine_distance_m(a.lat, a.lon, b.lat, b.lon)

\* C3: in every result of the panorama search called with a minimum
\* separation, each item lies more than min_distance metres from every item
\* before it.
C3_ResultSeparated ==
    entry = "panos" =>
        \A j \in 1..Len(Items) : \A i \in 1..(j - 1) :
            Separation(Items[i], Items[j]) > request.min_distance * 1000

\* A search that skipped a candidate for being too close: a record within
\* the radius is left out although fewer than MaxResults were accepted.
C3_Witness ==
    /\ entry = "panos"
    /\ Len(Items) >= 2
    /\ Len(Items) < MaxResults
    /\ \E i \in 1..Len(Usable) :
          /\ haversine_distance_m(request.lat, request.lon,
                 Usable[i].geometry.coordinates[2].v,
                 Usable[i].geometry.coordinates[1].v)
                <= request.area_of_interest * 1000
          /\ \A k \in 1..Len(Items) : Items[k].id # Usable[i].id

\* C4: the number of items a search returns never exceeds the maximum it
\* was asked for (n of find_nearest_vr_images).
C4_AtMostMaxResults ==
    Served /\ outcome.status = "ok" => Len(Items) <= MaxResults

\* A search of the form handler that cut its list: more records were
\* ranked than were asked for.
C4_Witness ==
    /\ entry = "index"
    /\ outcome.status = "ok"
    /\ Len(Items) = MaxResults
    /\ Len(Usable) > MaxResults

\* C5: every item a search returns lies at most the radius from the
\* centre.
C5_WithinRadius ==
    Served =>
        \A i \in 1..Len(Items) :
            Items[i].distance_m <= request.area_of_interest * 1000

\* C6: the result is sorted by non-decreasing distance to the centre.
C6_SortedByDistance ==
    Served =>
        \A j \in 1..Len(Items) : \A i \in 1..(j - 1) :
            Items[i].distance_m <= Items[j].distance_m

\* A result of several items whose nearest item was not the first usable
\* record of the response.
C6_Witness ==
    /\ entry = "index"
    /\ Len(Items) >= 2
    /\ Items[1].distance_m < Items[2].distance_m
    /\ Items[1].id # Usable[1].id

Position(id) == CHOOSE i \in 1..Len(catalogue) : catalogue[i].id = id

\* The catalogue with the records at k and k + 1 exchanged.
Swapped(k) ==
    [i \in 1..Len(catalogue) |->
        IF i = k THEN catalogue[k + 1]
        ELSE IF i = k + 1 THEN catalogue[k] ELSE catalogue[i]]

Distances(o) == [i \in 1..Len(o.items) |-> o.items[i].distance_m]

C8_NonPositiveCountAsOne ==
    request.count <= 0 =>
        /\ entry = "index" =>
              outcome = find_nearest_vr_images(request.lat, request.lon, 1,
                                               IndexRadius, catalogue)
        /\ entry = "panos" =>
              outcome = panos_api([request EXCEPT !.count = 1], catalogue)

\* A form request with count 0 answered with one item.
C8_Witness ==
    /\ entry = "index"
    /\ request.count = 0
    /\ outcome.status = "ok"
    /\ Len(Items) = 1
    /\ Len(Usable) >= 2

\* C9: whatever records of the response are malformed, the search ends
\* without raising, returns none of them, and ranks the others as if the
\* malformed ones were absent.
C9_MalformedDropped ==
    entry = "index" =>
        /\ outcome.status = "ok"
        /\ \A i \in 1..Len(Items) :
              \E k \in 1..Len(Usable) : Usable[k].id = Items[i].id
        /\ outcome = index(request.lat, request.lon, request.count, Usable)

\* ------------------------------------------------------------------------
\* Properties of the panorama cache
\* ------------------------------------------------------------------------
\* C1: of the calls that run at the same time for an image id that is not
\* cached, one performs the network fetch: the fetches issued for an id that
\* did not end in an exception are never more than one.
C1_SingleFetch ==
    \A id \in ImageIds : netFetches[id] - failedFetches[id] <= 1

\* C2: no caller decodes the file of an image id while another caller is
\* still writing it: what imread is given with a writer at work is the
\* whole body.
C2_NoPartialDecode ==
    \A c \in Callers :
        decoded[c].done /\ decoded[c].writers # {}
            => decoded[c].data = HostBody(arg[c])

\* C10: a call that finds the file of its image id in the cache issues no
\* network request and does not create, truncate or write that file.
C10_CachedNoFetchNoWrite ==
    \A c \in Callers : sawCached[c] => ~fetched[c] /\ ~wrote[c]

\* A call that found the file in the cache and returned the views.
C10_Witness ==
    \E c \in Callers :
        /\ sawCached[c]
        /\ pc[c] = "idle"
        /\ returned[c] = "views"
        /\ netFetches[arg[c]] = 1

\* C11: a file exists under an image id only through a download that
\* completed: whenever no caller has the file open for writing, it is
\* absent or holds the whole body the host serves.
C11_OnlyCompleteEntries ==
    \A id \in AllImageIds :
        panos[id].exists /\ Writers(id) = {} => panos[id].data = HostBody(id)

\* C12: a call whose stored bytes, the whole body the host served, do not
\* decode ends in an error outcome, as a call whose fetch failed does,
\* never in the return of an empty set of views.
C12_FailuresToldApart ==
    \A c \in Callers :
        /\ decoded[c].done /\ decoded[c].data = HostBody(arg[c])
        /\ pc[c] = "idle" /\ returned[c] # "views"
        => returned[c] = "raised"

\* The images the claim lets view generation run for: a URL is known and
\* the image is flagged is_pano or its width is within 0.3 heights of two
\* heights.
Panoramic(id) ==
    /\ Meta(id).image_url
    /\ \/ Meta(id).is_pano
       \/ /\ Meta(id).height > 0
          /\ 17 * Meta(id).height < 10 * Meta(id).width
          /\ 10 * Meta(id).width < 23 * Meta(id).height

\* C14: view generation runs, and view files are written, only for images
\* that are confirmed panoramic.
C14_ViewsOnlyForPanoramas ==
    /\ \A c \in Callers : pc[c] # "idle" => Panoramic(arg[c])
    /\ \A id \in AllImageIds : views[id] # {} => Panoramic(id)

\* One caller was refused an image that is no panorama while the views of
\* a 2:1 image that is not flagged exist.
C14_Witness ==
    /\ \E c \in Callers : returned[c] = "skipped" /\ ~Panoramic(arg[c])
    /\ views[1] # {}

\* C16: a call whose panorama decodes returns four views, front, right,
\* back and left, made with yaw 0, 90, 180 and 270, pitch 0 and a field of
\* view of 90 degrees, each stored as <image id>_<name>.
C16_FourNamedViews ==
    \A c \in Callers :
        returned[c] = "views" =>
            views[arg[c]] =
                { [file |-> <<arg[c], v[1]>>, name |-> v[1], yaw |-> v[2],
                   pitch |-> 0, fov |-> 90] :
                  v \in { <<"front", 0>>, <<"right", 90>>, <<"back", 180>>,
                          <<"left", 270>> } }

\* A call that returned its views.
C16_Witness ==
    \E c \in Callers :
        returned[c] = "views" /\ Cardinality(views[arg[c]]) = 4

\* C23: a file of the cache that has been written and closed keeps its
\* content: no step of any call changes it.
C23_WrittenFilesKept ==
    [][\A id \in AllImageIds :
          panos[id].exists /\ Writers(id) = {} => panos'[id] = panos[id]]_vars

\* C29: on one source response find_nearest_vr_images with n = 1 returns
\* the empty list exactly when find_nearest_vr_image returns None, and
\* otherwise the one record find_nearest_vr_image returns.
C29_OneOfManyIsNearest ==
    entry = "nearest" =>
        /\ outcome.status = nearest.status
        /\ outcome.status = "ok" =>
            /\ Items = <<>> <=> ~nearest.found
            /\ nearest.found =>
                /\ Len(Items) = 1
                /\ Items[1].id = nearest.id
                /\ Items[1].lat = nearest.lat
                /\ Items[1].lon = nearest.lon
                /\ Items[1].distance_m = nearest.distance_m

\* A response with two records at the same, smallest distance.
C29_Witness ==
    /\ entry = "nearest"
    /\ nearest.found
    /\ Cardinality({ k \in 1..Len(Usable) :
           haversine_distance_m(request.lat, request.lon,
                                Usable[k].geometry.coordinates[2].v,
                                Usable[k].geometry.coordinates[1].v)
               = nearest.distance_m }) >= 2

\* ------------------------------------------------------------------------
\* Properties of the batch handlers
\* ------------------------------------------------------------------------
Batch == entry \in BatchHandlers

Failed(id) == FateOf(fates, id) # "ok"

Generated == projPc = "generated"

\* Longitudes every 15 degrees round the panorama.
Longitudes == { 15000 * k : k \in (0 - 11)..12 }

\* The horizontal field a view samples: from the longitude of its first
\* column eastwards to the longitude of its last column.
InField(L, shot) ==
    LET lo == shot[<<0, 0>>].lon
        hi == shot[<<cfg.out_w - 1, 0>>].lon
    IN  (L - lo) % 360000 <= (hi - lo) % 360000

\* C15: every longitude, the boundaries between adjacent views included,
\* lies in the sampled field of exactly one of the four views.
C15_FieldsPartition ==
    Generated =>
        \A L \in Longitudes :
            Cardinality({ y \in DOMAIN shots : InField(L, shots[y]) }) = 1

Clamp(k, len) == Max(0, Min(k, len - 1))

\* C17: a source row outside the panorama is read as the nearest row of
\* the panorama, never as a row of the opposite pole.
C17_RowsClamped ==
    \A y \in DOMAIN shots : \A p \in DOMAIN shots[y] :
        shots[y][p].rows = { Clamp(k, cfg.h_in) : k \in Taps(shots[y][p].y_pano) }

Center == <<cfg.out_w \div 2, cfg.out_h \div 2>>

\* C18: with yaw 0 and pitch 0 the centre output pixel is mapped to the
\* centre of the panorama, (w_in / 2, h_in / 2).
C18_CenterToCenter ==
    0 \in DOMAIN shots /\ cfg.pitch = 0 =>
        /\ shots[0][Center].x_pano = 500 * cfg.w_in
        /\ shots[0][Center].y_pano = 500 * cfg.h_in

\* C19: the centre pixel of the back view looks half a turn, half the
\* panorama's width, away from the centre pixel of the front view.
C19_BackOppositeFront ==
    Generated =>
        /\ (shots[180][Center].lon - shots[0][Center].lon) % 360000 = 180000
        /\ (shots[180][Center].x_pano - shots[0][Center].x_pano)
               % (1000 * cfg.w_in) = 500 * cfg.w_in

\* Four views whose centre pixel looks off the axis.
C19_Witness ==
    /\ Generated
    /\ shots[0][Center].lon > 0
    /\ shots[180][Center].lon < 0

\* C24: the ray of output pixel (px, py) before normalisation is
\* (px - out_w / 2, -(py - out_h / 2), f) with f = out_w / 2 for the field
\* of view of 90 degrees; here all three times 2 * (out_w - 1) * (out_h - 1).
C24_RayOfPixel ==
    \A y \in DOMAIN shots : \A p \in DOMAIN shots[y] :
        LET scale == (cfg.out_w - 1) * (cfg.out_h - 1)
        IN  /\ shots[y][p].ray.x = (2 * p[1] - cfg.out_w) * scale
            /\ shots[y][p].ray.y = (0 - (2 * p[2] - cfg.out_h)) * scale
            /\ shots[y][p].ray.z = cfg.out_w * scale

\* ------------------------------------------------------------------------
\* Properties of the geo helpers
\* ------------------------------------------------------------------------
\* C20: a point within radius_m of the centre by haversine_distance_m lies
\* inside the box bbox_from_point gives for that centre and radius.
C20_WithinRadiusInsideBox ==
    geoPc = "probed" /\ probe.distance_m <= probe.radius_m * 1000 =>
        /\ probe.bbox.min_lat <= probe.point_lat
        /\ probe.point_lat <= probe.bbox.max_lat
        /\ probe.bbox.min_lon <= probe.point_lon
        /\ probe.point_lon <= probe.bbox.max_lon

\* C21: bbox_from_point with a radius of zero or less returns no box, and
\* no box it returns has its minimum above its maximum.
C21_NonPositiveRadiusRejected ==
    geoPc = "probed" =>
        /\ probe.radius_m <= 0 => ~probe.box_returned
        /\ probe.box_returned =>
            /\ probe.bbox.min_lat <= probe.bbox.max_lat
            /\ probe.bbox.min_lon <= probe.bbox.max_lon

\* C22: the distance from a to b equals the distance from b to a.
C22_DistanceSymmetric ==
    geoPc = "probed" => probe.distance_m = probe.reverse_m

\* Two points that differ in latitude and longitude, away from the equator.
C22_Witness ==
    /\ geoPc = "probed"
    /\ probe.lat # probe.point_lat /\ probe.lon # probe.point_lon
    /\ probe.lat > 0
    /\ probe.distance_m > 0

\* ------------------------------------------------------------------------
\* Properties of the Dashboard application
\* ------------------------------------------------------------------------
\* The request was made with a session that holds a user_id.
LoggedIn == dash.has

\* C25: GET /image/<id> serves the image to a session that is not an
\* admin's only when the upload's user_id is the session's; otherwise it
\* answers 404 or redirects to the login page.
C25_OwnImagesOnly ==
    dash.op = "get_image" /\ dash.role # "admin" =>
        LET own == \E u \in uploads : u.id = dash.arg /\ u.user_id = dash.user_id
        IN  /\ dash.status = "image" => LoggedIn /\ own /\ dash.image = dash.arg
            /\ ~(LoggedIn /\ own) => dash.status \in { "404", "redirect_login" }

\* A user is served an own image, though another user's upload exists.
C25_Witness ==
    /\ dash.op = "get_image" /\ dash.role = "user" /\ dash.status = "image"
    /\ \E u \in uploads : u.user_id # dash.user_id

\* C26: a step takes rows out of users or uploads only as a delete_upload
\* or delete_user request of a session with a user_id and the role admin;
\* any other request to them changes neither table and is redirected, and
\* delete_user leaves the row of the admin who asks.
C26_OnlyAdminsDelete ==
    [][LET gone == (users \ users') \cup (uploads \ uploads')
           admin == dash'.has /\ dash'.role = "admin"
       IN  /\ gone # {} =>
                dash'.op \in { "delete_upload", "delete_user" } /\ admin
           /\ dash'.op \in { "delete_upload", "delete_user" } /\ ~admin =>
                /\ users' = users /\ uploads' = uploads
                /\ dash'.status \in { "redirect_login", "redirect_index" }
           /\ dash'.op = "delete_user" =>
                \A r \in users \ users' : r.id # dash'.user_id]_vars

\* A user has been deleted, and a user who is no admin has asked for a
\* deletion and was sent to the index page.
C26_Witness ==
    /\ deleted # {}
    /\ dash.op = "delete_user" /\ dash.role = "user"
    /\ dash.status = "redirect_index"

\* C27: a request with the session of a user whose row has been deleted
\* passes neither login_required nor admin_required.
C27_DeletedUserLockedOut ==
    /\ dash.op \in { "upload", "get_image", "search" }
          /\ LoggedIn /\ dash.user_id \in deleted
       => dash.status = "redirect_login"
    /\ dash.op \in { "delete_upload", "delete_user" }
          /\ LoggedIn /\ dash.user_id \in deleted
       => dash.status \in { "redirect_login", "redirect_index" }

\* C28: every row of uploads has the user_id of a row of users.
C28_UploadsHaveUsers ==
    \A u \in uploads : \E r \in users : r.id = u.user_id

\* The uploads search_uploads_by_area is to return for the last request.
Matching ==
    { u \in uploads :
        /\ u.user_id = dash.user_id
        /\ u.spot # <<>>
        /\ haversine_distance(0, 0, u.spot[1], u.spot[2]) <= dash.arg * 1000 }

\* C30: search_uploads_by_area returns exactly the session's own uploads
\* that have coordinates and lie within the radius, by non-decreasing
\* reported distance.
C30_OwnUploadsInArea ==
    dash.op = "search" /\ dash.status = "ok" =>
        /\ { dash.found[i].id : i \in 1..Len(dash.found) } = { u.id : u \in Matching }
        /\ Len(dash.found) = Cardinality(Matching)
        /\ \A i, j \in 1..Len(dash.found) :
               i < j => dash.found[i].distance <= dash.found[j].distance

\* Two own uploads found, the later one first, and another user's upload
\* in the area left out.
C30_Witness ==
    /\ dash.op = "search" /\ dash.status = "ok"
    /\ Len(dash.found) = 2
    /\ dash.found[1].id > dash.found[2].id

====
